---- MODULE Spec2Model ----
(***************************************************************************)
(* Model of scripts/ai/validate.py: the Unity test-run orchestrator.       *)
(* Strings are sequences of one-character strings, so that the lexical     *)
(* tests, the quoting and the formatting of the script are computed as the *)
(* script computes them.  Child processes (wslpath, the Unity editor) are  *)
(* the environment: their exit code is chosen nondeterministically.        *)
(***************************************************************************)
EXTENDS Integers, Sequences, FiniteSets, TLC

VARIABLES
    command,      \* args.command
    platform,     \* args.platform (None when --platform is not given)
    filter,       \* args.filter (None when --filter is not given)
    cli_unity,    \* args.unity (None when --unity is not given)
    project_arg,  \* args.project_path
    dry_run,      \* args.dry_run
    environ,      \* os.environ: a function from variable names to strings
    files,        \* regular files of the filesystem
    dirs,         \* directories of the filesystem
    pc,           \* position in main()
    unity,        \* main's local `unity`
    project_path, \* main's local `project_path`
    timestamp,    \* main's local `timestamp`
    procs,        \* every subprocess.run call so far, in order
    out,          \* lines printed to standard output, in order
    runs,         \* the run_one calls so far, in order
    mkdirs,       \* the mkdir calls so far, in order, and whether the path existed
    exit,         \* NotExited, or the status and stderr line of the ended process
    call          \* unit harness: the last function call and its result

vars == <<command, platform, filter, cli_unity, project_arg, dry_run, environ,
          files, dirs, pc, unity, project_path, timestamp, procs, out, runs,
          mkdirs, exit, call>>

-----------------------------------------------------------------------------
(* Bounds of the model *)

\* longest path given to the path functions in the unit harness
MaxPathLen == 3
\* largest exit code a child process returns
MaxExit == 2

-----------------------------------------------------------------------------
(* Python values *)

\* Python's None: no string equals it, since strings hold one-character items
None == <<"None">>

\* `not x` for x a string or None
Falsy(x) == x = None \/ x = <<>>

\* mutant: the second operand is preferred
Or_preferring_second(a, b) == IF Falsy(b) THEN a ELSE b

\* a or b
Or(a, b) == IF Falsy(a) THEN b ELSE a

\* c in s, for a character c
Contains(s, c) == \E i \in 1..Len(s) : s[i] = c

\* characters str.strip() removes
Whitespace == {" ", "\n", "\t", "\r"}

RECURSIVE lstrip(_)
lstrip(s) == IF s # <<>> /\ Head(s) \in Whitespace THEN lstrip(Tail(s)) ELSE s

RECURSIVE rstrip(_)
rstrip(s) ==
    IF s # <<>> /\ s[Len(s)] \in Whitespace
    THEN rstrip(SubSeq(s, 1, Len(s) - 1)) ELSE s

\* str.strip()
strip(s) == rstrip(lstrip(s))

\* sep.join(items)
RECURSIVE join(_, _)
join(sep, items) ==
    IF items = <<>> THEN <<>>
    ELSE IF Len(items) = 1 THEN items[1]
    ELSE items[1] \o sep \o join(sep, Tail(items))

\* str(n) for an integer n >= 0
RECURSIVE str(_)
str(n) ==
    LET digit(d) == <<"0","1","2","3","4","5","6","7","8","9">>[d + 1]
    IN  IF n < 10 THEN <<digit(n)>> ELSE str(n \div 10) \o <<digit(n % 10)>>

\* the result of a call: a returned value, or SystemExit(msg); `spawned` are
\* the child processes the call ran, in order, and `printed` what it printed
Return(val, spawned, printed) ==
    [raised |-> FALSE, val |-> val, msg |-> <<>>, spawned |-> spawned,
     printed |-> printed]

SystemExit(msg, spawned, printed) ==
    [raised |-> TRUE, val |-> None, msg |-> msg, spawned |-> spawned,
     printed |-> printed]

\* one subprocess.run call: the function that made it, its argv, and what the
\* child answered
Completed(site, cmd, resp) ==
    [site |-> site, cmd |-> cmd, returncode |-> resp.returncode,
     stdout |-> resp.stdout, stderr |-> resp.stderr]

-----------------------------------------------------------------------------
(* The path functions *)

is_wsl(env) == "WSL_DISTRO_NAME" \in DOMAIN env \/ "WSL_INTEROP" \in DOMAIN env

\* mutant: the drive pattern accepts a backslash only
looks_like_windows_path_backslash_only(path) ==
    IF Len(path) >= 3 /\ path[2] = ":" /\ path[3] = "\\" THEN TRUE
    ELSE IF Contains(path, "\\") THEN TRUE
    ELSE FALSE

looks_like_windows_path(path) ==
    IF Len(path) >= 3 /\ path[2] = ":" /\ path[3] \in {"\\", "/"} THEN TRUE
    ELSE IF Contains(path, "\\") THEN TRUE
    ELSE FALSE

\* mutant: a failed conversion is not noticed
run_wslpath_ignoring_failure(arg, value, resp) ==
    LET completed == Completed("run_wslpath", <<<<"w","s","l","p","a","t","h">>, arg, value>>, resp)
    IN  Return(strip(completed.stdout), <<completed>>, <<>>)

\* resp is the converter's answer to this call
run_wslpath(arg, value, resp) ==
    LET completed == Completed("run_wslpath", <<<<"w","s","l","p","a","t","h">>, arg, value>>, resp)
    IN  IF completed.returncode # 0
        THEN SystemExit(<<"E","r","r","o","r",":"," ","f","a","i","l","e","d"," ","t","o"," ","c","o","n","v","e","r","t"," ","p","a","t","h"," ","v","i","a"," ","w","s","l","p","a","t","h",":"," ">> \o value,
                        <<completed>>, <<>>)
        ELSE Return(strip(completed.stdout), <<completed>>, <<>>)

to_unix_path(path, env, resp) ==
    IF is_wsl(env) /\ looks_like_windows_path(path)
    THEN run_wslpath(<<"-","u">>, path, resp)
    ELSE Return(path, <<>>, <<>>)

\* mutant: converts only the paths that do not look foreign already
to_windows_path_prechecked(path, env, resp) ==
    IF is_wsl(env) /\ ~looks_like_windows_path(path)
    THEN run_wslpath(<<"-","w">>, path, resp)
    ELSE Return(path, <<>>, <<>>)

to_windows_path(path, env, resp) ==
    IF is_wsl(env) THEN run_wslpath(<<"-","w">>, path, resp)
    ELSE Return(path, <<>>, <<>>)

\* a call made after `prev` returned: what both spawned and printed, in order
After(prev, next) ==
    [next EXCEPT !.spawned = prev.spawned \o @, !.printed = prev.printed \o @]

\* Path(p).is_file()
is_file(p, fs_files) == p \in fs_files

\* mutant: the existence check is made on the path as given, not as normalized
resolve_unity_path_checking_raw(cli, dry, env, fs_files, resp) ==
    LET raw == Or(cli, IF "UNITY_EDITOR_PATH" \in DOMAIN env
                       THEN env["UNITY_EDITOR_PATH"] ELSE None)
    IN  IF Falsy(raw)
        THEN SystemExit(<<"E","r","r","o","r",":"," ","U","n","i","t","y"," ","p","a","t","h"," ","i","s"," ","r","e","q","u","i","r","e","d","."," ","U","s","e"," ","-","-","u","n","i","t","y"," ","o","r"," ","s","e","t"," ","U","N","I","T","Y","_","E","D","I","T","O","R","_","P","A","T","H",".">>,
                        <<>>, <<>>)
        ELSE LET conv == to_unix_path(raw, env, resp)
             IN  IF conv.raised THEN conv
                 ELSE IF ~dry /\ ~is_file(raw, fs_files)
                 THEN After(conv, SystemExit(<<"E","r","r","o","r",":"," ","U","n","i","t","y"," ","e","d","i","t","o","r"," ","n","o","t"," ","f","o","u","n","d"," ","a","t"," ","'">>
                                             \o conv.val \o <<"'",".">>, <<>>, <<>>))
                 ELSE conv

\* mutant: a missing executable path is not refused
resolve_unity_path_without_required_check(cli, dry, env, fs_files, resp) ==
    LET raw == Or(cli, IF "UNITY_EDITOR_PATH" \in DOMAIN env
                       THEN env["UNITY_EDITOR_PATH"] ELSE None)
        conv == to_unix_path(raw, env, resp)
    IN  IF conv.raised THEN conv
        ELSE IF ~dry /\ ~is_file(conv.val, fs_files)
        THEN After(conv, SystemExit(<<"E","r","r","o","r",":"," ","U","n","i","t","y"," ","e","d","i","t","o","r"," ","n","o","t"," ","f","o","u","n","d"," ","a","t"," ","'">>
                                    \o conv.val \o <<"'",".">>, <<>>, <<>>))
        ELSE conv

\* mutant: the existence check is made in dry-run too
resolve_unity_path_always_checking(cli, dry, env, fs_files, resp) ==
    LET raw == Or(cli, IF "UNITY_EDITOR_PATH" \in DOMAIN env
                       THEN env["UNITY_EDITOR_PATH"] ELSE None)
    IN  IF Falsy(raw)
        THEN SystemExit(<<"E","r","r","o","r",":"," ","U","n","i","t","y"," ","p","a","t","h"," ","i","s"," ","r","e","q","u","i","r","e","d","."," ","U","s","e"," ","-","-","u","n","i","t","y"," ","o","r"," ","s","e","t"," ","U","N","I","T","Y","_","E","D","I","T","O","R","_","P","A","T","H",".">>,
                        <<>>, <<>>)
        ELSE LET conv == to_unix_path(raw, env, resp)
             IN  IF conv.raised THEN conv
                 ELSE IF ~is_file(conv.val, fs_files)
                 THEN After(conv, SystemExit(<<"E","r","r","o","r",":"," ","U","n","i","t","y"," ","e","d","i","t","o","r"," ","n","o","t"," ","f","o","u","n","d"," ","a","t"," ","'">>
                                             \o conv.val \o <<"'",".">>, <<>>, <<>>))
                 ELSE conv

resolve_unity_path(cli, dry, env, fs_files, resp) ==
    LET raw == Or(cli, IF "UNITY_EDITOR_PATH" \in DOMAIN env
                       THEN env["UNITY_EDITOR_PATH"] ELSE None)
    IN  IF Falsy(raw)
        THEN SystemExit(<<"E","r","r","o","r",":"," ","U","n","i","t","y"," ","p","a","t","h"," ","i","s"," ","r","e","q","u","i","r","e","d","."," ","U","s","e"," ","-","-","u","n","i","t","y"," ","o","r"," ","s","e","t"," ","U","N","I","T","Y","_","E","D","I","T","O","R","_","P","A","T","H",".">>,
                        <<>>, <<>>)
        ELSE LET conv == to_unix_path(raw, env, resp)
             IN  IF conv.raised THEN conv
                 ELSE IF ~dry /\ ~is_file(conv.val, fs_files)
                 THEN After(conv, SystemExit(<<"E","r","r","o","r",":"," ","U","n","i","t","y"," ","e","d","i","t","o","r"," ","n","o","t"," ","f","o","u","n","d"," ","a","t"," ","'">>
                                             \o conv.val \o <<"'",".">>, <<>>, <<>>))
                 ELSE conv

-----------------------------------------------------------------------------
(* One runner invocation *)

\* mutant: the quit toggle is placed before the log file pair
arg_list_quit_before_log(normalized_project_path, plat, normalized_results_file, normalized_log_file, test_filter) ==
    LET args == << <<"-","b","a","t","c","h","m","o","d","e">>, <<"-","p","r","o","j","e","c","t","P","a","t","h">>, normalized_project_path,
                   <<"-","r","u","n","T","e","s","t","s">>, <<"-","t","e","s","t","P","l","a","t","f","o","r","m">>, plat,
                   <<"-","t","e","s","t","R","e","s","u","l","t","s">>, normalized_results_file,
                   <<"-","q","u","i","t">>, <<"-","l","o","g","F","i","l","e">>, normalized_log_file >>
    IN  IF ~Falsy(test_filter)
        THEN args \o << <<"-","t","e","s","t","F","i","l","t","e","r">>, test_filter >>
        ELSE args

\* mutant: the filter pair is appended for every filter that is not None
arg_list_filter_not_none(normalized_project_path, plat, normalized_results_file, normalized_log_file, test_filter) ==
    LET args == << <<"-","b","a","t","c","h","m","o","d","e">>, <<"-","p","r","o","j","e","c","t","P","a","t","h">>, normalized_project_path,
                   <<"-","r","u","n","T","e","s","t","s">>, <<"-","t","e","s","t","P","l","a","t","f","o","r","m">>, plat,
                   <<"-","t","e","s","t","R","e","s","u","l","t","s">>, normalized_results_file,
                   <<"-","l","o","g","F","i","l","e">>, normalized_log_file, <<"-","q","u","i","t">> >>
    IN  IF test_filter # None
        THEN args \o << <<"-","t","e","s","t","F","i","l","t","e","r">>, test_filter >>
        ELSE args

\* lines 68-83: the argument list, from the three normalized paths
arg_list(normalized_project_path, plat, normalized_results_file, normalized_log_file, test_filter) ==
    LET args == << <<"-","b","a","t","c","h","m","o","d","e">>,
                   <<"-","p","r","o","j","e","c","t","P","a","t","h">>,
                   normalized_project_path,
                   <<"-","r","u","n","T","e","s","t","s">>,
                   <<"-","t","e","s","t","P","l","a","t","f","o","r","m">>,
                   plat,
                   <<"-","t","e","s","t","R","e","s","u","l","t","s">>,
                   normalized_results_file,
                   <<"-","l","o","g","F","i","l","e">>,
                   normalized_log_file,
                   <<"-","q","u","i","t">> >>
    IN  IF ~Falsy(test_filter)
        THEN args \o << <<"-","t","e","s","t","F","i","l","t","e","r">>, test_filter >>
        ELSE args

\* mutant: the log file is passed as given, not as converted
build_args_passing_raw_log(project, plat, results_file, log_file, test_filter, env, r1, r2, r3) ==
    LET normalized_project_path == to_windows_path(project, env, r1)
        normalized_results_file ==
            After(normalized_project_path, to_windows_path(results_file, env, r2))
        normalized_log_file ==
            After(normalized_results_file, to_windows_path(log_file, env, r3))
    IN  IF normalized_project_path.raised THEN normalized_project_path
        ELSE IF normalized_results_file.raised THEN normalized_results_file
        ELSE IF normalized_log_file.raised THEN normalized_log_file
        ELSE After(normalized_log_file,
                   Return(arg_list(normalized_project_path.val, plat,
                                   normalized_results_file.val,
                                   log_file, test_filter),
                          <<>>, <<>>))

build_args(project, plat, results_file, log_file, test_filter, env, r1, r2, r3) ==
    LET normalized_project_path == to_windows_path(project, env, r1)
        normalized_results_file ==
            After(normalized_project_path, to_windows_path(results_file, env, r2))
        normalized_log_file ==
            After(normalized_results_file, to_windows_path(log_file, env, r3))
    IN  IF normalized_project_path.raised THEN normalized_project_path
        ELSE IF normalized_results_file.raised THEN normalized_results_file
        ELSE IF normalized_log_file.raised THEN normalized_log_file
        ELSE After(normalized_log_file,
                   Return(arg_list(normalized_project_path.val, plat,
                                   normalized_results_file.val,
                                   normalized_log_file.val, test_filter),
                          <<>>, <<>>))

\* f'"{a}"'
quote(a) == <<"\"">> \o a \o <<"\"">>

\* mutant: the exit code of the runner is not looked at
run_one_ignoring_returncode(req, env, r1, r2, r3, runner) ==
    LET built == build_args(req.project_path, req.platform, req.results_file,
                            req.log_file, req.test_filter, env, r1, r2, r3)
        args == built.val
        progress == << <<"[","v","a","l","i","d","a","t","e","]"," ","p","l","a","t","f","o","r","m","=">> \o req.platform,
                       <<"[","v","a","l","i","d","a","t","e","]"," ","r","e","s","u","l","t","s","=">> \o req.results_file,
                       <<"[","v","a","l","i","d","a","t","e","]"," ","l","o","g","=">> \o req.log_file >>
        quoted == join(<<" ">>, <<quote(req.unity)>>
                                \o [i \in 1..Len(args) |-> quote(args[i])])
        cmd == <<req.unity>> \o args
        completed == Completed("run_one", cmd, runner)
    IN  IF built.raised THEN built
        ELSE IF req.dry_run
        THEN After(built, Return(None, <<>>,
                                 progress \o << <<"[","d","r","y","-","r","u","n","]"," ">> \o quoted >>))
        ELSE After(built, Return(None, <<completed>>, progress))

\* mutant: the message reports the exit status of the script, not of the runner
run_one_reporting_status_one(req, env, r1, r2, r3, runner) ==
    LET built == build_args(req.project_path, req.platform, req.results_file,
                            req.log_file, req.test_filter, env, r1, r2, r3)
        args == built.val
        progress == << <<"[","v","a","l","i","d","a","t","e","]"," ","p","l","a","t","f","o","r","m","=">> \o req.platform,
                       <<"[","v","a","l","i","d","a","t","e","]"," ","r","e","s","u","l","t","s","=">> \o req.results_file,
                       <<"[","v","a","l","i","d","a","t","e","]"," ","l","o","g","=">> \o req.log_file >>
        quoted == join(<<" ">>, <<quote(req.unity)>>
                                \o [i \in 1..Len(args) |-> quote(args[i])])
        cmd == <<req.unity>> \o args
        completed == Completed("run_one", cmd, runner)
    IN  IF built.raised THEN built
        ELSE IF req.dry_run
        THEN After(built, Return(None, <<>>,
                                 progress \o << <<"[","d","r","y","-","r","u","n","]"," ">> \o quoted >>))
        ELSE IF completed.returncode # 0
        THEN After(built,
                   SystemExit(<<"E","r","r","o","r",":"," ","U","n","i","t","y"," ","t","e","s","t"," ","r","u","n"," ","f","a","i","l","e","d"," ","w","i","t","h"," ","e","x","i","t"," ","c","o","d","e"," ">>
                              \o str(1) \o <<".">>,
                              <<completed>>, progress))
        ELSE After(built, Return(None, <<completed>>, progress))

\* mutant: a dry run prints the command line without converting the paths
run_one_dry_without_conversion(req, env, r1, r2, r3, runner) ==
    LET built == build_args(req.project_path, req.platform, req.results_file,
                            req.log_file, req.test_filter,
                            IF req.dry_run THEN <<>> ELSE env, r1, r2, r3)
        args == built.val
        progress == << <<"[","v","a","l","i","d","a","t","e","]"," ","p","l","a","t","f","o","r","m","=">> \o req.platform,
                       <<"[","v","a","l","i","d","a","t","e","]"," ","r","e","s","u","l","t","s","=">> \o req.results_file,
                       <<"[","v","a","l","i","d","a","t","e","]"," ","l","o","g","=">> \o req.log_file >>
        quoted == join(<<" ">>, <<quote(req.unity)>>
                                \o [i \in 1..Len(args) |-> quote(args[i])])
        cmd == <<req.unity>> \o args
        completed == Completed("run_one", cmd, runner)
    IN  IF built.raised THEN built
        ELSE IF req.dry_run
        THEN After(built, Return(None, <<>>,
                                 progress \o << <<"[","d","r","y","-","r","u","n","]"," ">> \o quoted >>))
        ELSE IF completed.returncode # 0
        THEN After(built,
                   SystemExit(<<"E","r","r","o","r",":"," ","U","n","i","t","y"," ","t","e","s","t"," ","r","u","n"," ","f","a","i","l","e","d"," ","w","i","t","h"," ","e","x","i","t"," ","c","o","d","e"," ">>
                              \o str(completed.returncode) \o <<".">>,
                              <<completed>>, progress))
        ELSE After(built, Return(None, <<completed>>, progress))

\* req is the RunRequest; r1..r3 answer the converter calls, runner the launch
run_one(req, env, r1, r2, r3, runner) ==
    LET built == build_args(req.project_path, req.platform, req.results_file,
                            req.log_file, req.test_filter, env, r1, r2, r3)
        args == built.val
        progress == << <<"[","v","a","l","i","d","a","t","e","]"," ","p","l","a","t","f","o","r","m","=">> \o req.platform,
                       <<"[","v","a","l","i","d","a","t","e","]"," ","r","e","s","u","l","t","s","=">> \o req.results_file,
                       <<"[","v","a","l","i","d","a","t","e","]"," ","l","o","g","=">> \o req.log_file >>
        quoted == join(<<" ">>, <<quote(req.unity)>>
                                \o [i \in 1..Len(args) |-> quote(args[i])])
        cmd == <<req.unity>> \o args
        completed == Completed("run_one", cmd, runner)
    IN  IF built.raised THEN built
        ELSE IF req.dry_run
        THEN After(built, Return(None, <<>>,
                                 progress \o << <<"[","d","r","y","-","r","u","n","]"," ">> \o quoted >>))
        ELSE IF completed.returncode # 0
        THEN After(built,
                   SystemExit(<<"E","r","r","o","r",":"," ","U","n","i","t","y"," ","t","e","s","t"," ","r","u","n"," ","f","a","i","l","e","d"," ","w","i","t","h"," ","e","x","i","t"," ","c","o","d","e"," ">>
                              \o str(completed.returncode) \o <<".">>,
                              <<completed>>, progress))
        ELSE After(built, Return(None, <<completed>>, progress))

-----------------------------------------------------------------------------
(* The environment: the converter and the runner *)

\* exit codes of the converter
ConvCodes == {0, 1}

\* exit codes of the runner
RunnerCodes == 0..MaxExit

RECURSIVE replace(_, _, _)
replace(s, old, new) ==
    IF s = <<>> THEN <<>>
    ELSE <<IF Head(s) = old THEN new ELSE Head(s)>> \o replace(Tail(s), old, new)

\* what the wslpath tool prints for a path it converts: a line ending in "\n"
wslpath_stdout(arg, value) ==
    IF arg = <<"-","u">>
    THEN (IF Len(value) >= 2 /\ value[2] = ":"
          THEN <<"/","m","/">> \o <<value[1]>> \o replace(SubSeq(value, 3, Len(value)), "\\", "/")
          ELSE replace(value, "\\", "/")) \o <<"\n">>
    ELSE <<"\\","\\","w">> \o replace(value, "/", "\\") \o <<"\n">>

\* what the wslpath tool reports on its standard error for a path it refuses
wslpath_stderr(value) ==
    <<"w","s","l","p","a","t","h",":"," ">> \o value \o <<":"," ","I","n","v","a","l","i","d"," ","a","r","g","u","m","e","n","t">> \o <<"\n">>

\* the converter's answer when it exits with code rc
Converter(arg, value, rc) ==
    [returncode |-> rc,
     stdout |-> IF rc = 0 THEN wslpath_stdout(arg, value) ELSE <<>>,
     stderr |-> IF rc = 0 THEN <<>> ELSE wslpath_stderr(value)]

\* the runner's answer when it exits with code rc (its streams are inherited)
Runner(rc) == [returncode |-> rc, stdout |-> <<>>, stderr |-> <<>>]

-----------------------------------------------------------------------------
(* The command line and the process environment *)

single == <<"s","i","n","g","l","e">>
suite == <<"s","u","i","t","e">>
full == <<"f","u","l","l">>
EditMode == <<"E","d","i","t","M","o","d","e">>
PlayMode == <<"P","l","a","y","M","o","d","e">>

\* parse_args: choices of the positional command
Commands == {single, suite, full}

\* parse_args: --platform is absent or one of its choices
Platforms == {None, EditMode, PlayMode}

\* parse_args: --filter is absent, empty or a test name
Filters == {None, <<>>, <<"T">>}

\* parse_args: --unity is absent, empty, a native path or a Windows path
UnityArgs == {None, <<>>, <<"/","u">>, <<"/","x">>, <<"C",":","\\","u">>}

\* parse_args: --project-path, a relative path
ProjectArgs == {<<"p">>}

\* Path.cwd()
cwd == <<"/","w">>

\* parse_args: default of --results-dir
results_dir == <<"T","e","m","p","/","A","I","V","a","l","i","d","a","t","i","o","n">>

\* parse_args: default of --logs-dir
logs_dir == <<"T","e","m","p","/","A","I","V","a","l","i","d","a","t","i","o","n","/","l","o","g","s">>

\* datetime.now().strftime("%Y%m%d-%H%M%S")
Timestamps == {<<"2","0","2","6","0","1","0","1","-","0","0","0","0","0","0">>, <<"2","0","2","6","0","1","0","1","-","0","0","0","0","0","1">>}

\* os.environ: which of the WSL variables are set, and UNITY_EDITOR_PATH
Environs ==
    { [n \in wsl \cup ed |-> IF n = "UNITY_EDITOR_PATH" THEN v ELSE <<"1">>] :
        wsl \in {{}, {"WSL_DISTRO_NAME"}, {"WSL_INTEROP"}},
        ed \in {{}, {"UNITY_EDITOR_PATH"}},
        v \in {<<>>, <<"/","u">>} }

\* the filesystem before the command: the editor is installed or not
InitialFiles == {{}, {<<"/","u">>, <<"/","m","/","C","/","u">>}}

\* Path(path).resolve(), for a path without symbolic links or dots
resolve(path) ==
    IF path # <<>> /\ path[1] = "/" THEN path ELSE cwd \o <<"/">> \o path

\* directory / name
joinpath(directory, name) == directory \o <<"/">> \o name

\* path.mkdir(parents=True, exist_ok=True): the directories that exist after it
mkdir(path, fs_dirs) ==
    fs_dirs \cup {path}
            \cup {SubSeq(path, 1, i - 1) : i \in {j \in 2..Len(path) : path[j] = "/"}}

\* the filesystem before the command: the output directories exist or not
InitialDirs == {{}, mkdir(logs_dir, mkdir(results_dir, {}))}

NotExited == [status |-> -1, stderr |-> <<>>]

NoCall == [fn |-> "none", args |-> <<>>, ret |-> Return(None, <<>>, <<>>)]

\* the state after parse_args (line 129)
Init ==
    /\ command \in Commands
    /\ platform \in Platforms
    /\ filter \in Filters
    /\ cli_unity \in UnityArgs
    /\ project_arg \in ProjectArgs
    /\ dry_run \in BOOLEAN
    /\ environ \in Environs
    /\ files \in InitialFiles
    /\ dirs \in InitialDirs
    /\ pc = "check"
    /\ unity = None
    /\ project_path = None
    /\ timestamp = None
    /\ procs = <<>>
    /\ out = <<>>
    /\ runs = <<>>
    /\ mkdirs = <<>>
    /\ exit = NotExited
    /\ call = NoCall

inputs == <<command, platform, filter, cli_unity, project_arg, dry_run, environ>>

\* the process ends: sys.exit with a message prints it to stderr, status 1
Terminate(status, stderr) ==
    /\ pc' = "exited"
    /\ exit' = [status |-> status, stderr |-> stderr]

\* the effects of a call of main: its children, its output, and its exception
Effects(r, next_pc) ==
    /\ procs' = procs \o r.spawned
    /\ out' = out \o r.printed
    /\ IF r.raised THEN Terminate(1, r.msg)
       ELSE pc' = next_pc /\ UNCHANGED exit

\* mutant: single is not checked for its filter
CheckArgs_without_filter_check ==
    /\ pc = "check"
    /\ IF command \in {single, suite} /\ Falsy(platform)
       THEN Terminate(1, <<"E","r","r","o","r",":"," ">> \o command \o <<" ","r","e","q","u","i","r","e","s"," ","-","-","p","l","a","t","f","o","r","m",".">>)
       ELSE pc' = "resolve" /\ UNCHANGED exit
    /\ UNCHANGED <<inputs, files, dirs, unity, project_path, timestamp, procs,
                   out, runs, mkdirs, call>>

\* main, lines 131-135
CheckArgs ==
    /\ pc = "check"
    /\ IF command \in {single, suite} /\ Falsy(platform)
       THEN Terminate(1, <<"E","r","r","o","r",":"," ">> \o command \o <<" ","r","e","q","u","i","r","e","s"," ","-","-","p","l","a","t","f","o","r","m",".">>)
       ELSE IF command = single /\ Falsy(filter)
       THEN Terminate(1, <<"E","r","r","o","r",":"," ","s","i","n","g","l","e"," ","r","e","q","u","i","r","e","s"," ","-","-","f","i","l","t","e","r",".">>)
       ELSE pc' = "resolve" /\ UNCHANGED exit
    /\ UNCHANGED <<inputs, files, dirs, unity, project_path, timestamp, procs,
                   out, runs, mkdirs, call>>

\* main, line 137
ResolveUnity ==
    /\ pc = "resolve"
    /\ \E rc \in ConvCodes :
        LET raw == Or(cli_unity, IF "UNITY_EDITOR_PATH" \in DOMAIN environ
                                 THEN environ["UNITY_EDITOR_PATH"] ELSE None)
            r == resolve_unity_path(cli_unity, dry_run, environ, files,
                                    Converter(<<"-","u">>, raw, rc))
        IN  /\ Effects(r, "prepare")
            /\ unity' = r.val
    /\ UNCHANGED <<inputs, files, dirs, project_path, timestamp, runs, mkdirs, call>>

\* mutant: the logs directory is not created
Prepare_without_logs_dir ==
    /\ pc = "prepare"
    /\ project_path' = resolve(project_arg)
    /\ dirs' = mkdir(results_dir, dirs)
    /\ mkdirs' = mkdirs \o <<[path |-> results_dir, existed |-> results_dir \in dirs]>>
    /\ timestamp' \in Timestamps
    /\ pc' = "run"
    /\ UNCHANGED <<inputs, files, unity, procs, out, runs, exit, call>>

\* main, lines 138-145
Prepare ==
    /\ pc = "prepare"
    /\ project_path' = resolve(project_arg)
    /\ dirs' = mkdir(logs_dir, mkdir(results_dir, dirs))
    /\ mkdirs' = mkdirs \o <<[path |-> results_dir, existed |-> results_dir \in dirs],
                           [path |-> logs_dir,
                            existed |-> logs_dir \in mkdir(results_dir, dirs)]>>
    /\ timestamp' \in Timestamps
    /\ pc' = "run"
    /\ UNCHANGED <<inputs, files, unity, procs, out, runs, exit, call>>

\* mutant: the dry-run switch is not handed to run_one
RunRequest_never_dry(plat, mode, test_filter) ==
    [unity |-> unity,
     project_path |-> project_path,
     platform |-> plat,
     results_file |-> joinpath(results_dir, plat \o <<"-">> \o mode \o <<"-">>
                                            \o timestamp \o <<".","x","m","l">>),
     log_file |-> joinpath(logs_dir, plat \o <<"-">> \o mode \o <<"-">>
                                     \o timestamp \o <<".","l","o","g">>),
     test_filter |-> test_filter,
     dry_run |-> FALSE]

\* the RunRequest main builds for a run of `plat` tagged `mode`
RunRequest(plat, mode, test_filter) ==
    [unity |-> unity,
     project_path |-> project_path,
     platform |-> plat,
     results_file |-> joinpath(results_dir, plat \o <<"-">> \o mode \o <<"-">>
                                            \o timestamp \o <<".","x","m","l">>),
     log_file |-> joinpath(logs_dir, plat \o <<"-">> \o mode \o <<"-">>
                                     \o timestamp \o <<".","l","o","g">>),
     test_filter |-> test_filter,
     dry_run |-> dry_run]

\* the files a launched runner writes: its report and its log
RunnerWrites(r, req) ==
    IF \E i \in 1..Len(r.spawned) : r.spawned[i].site = "run_one"
    THEN {req.results_file, req.log_file} ELSE {}

\* one run_one call of main, after which main is at next_pc
Run(req, next_pc) ==
    \E c1 \in ConvCodes, c2 \in ConvCodes, c3 \in ConvCodes, rc \in RunnerCodes :
        LET r == run_one(req, environ,
                         Converter(<<"-","w">>, req.project_path, c1),
                         Converter(<<"-","w">>, req.results_file, c2),
                         Converter(<<"-","w">>, req.log_file, c3),
                         Runner(rc))
        IN  /\ Effects(r, next_pc)
            /\ runs' = Append(runs, req)
            /\ files' = files \cup RunnerWrites(r, req)
            /\ UNCHANGED <<inputs, dirs, unity, project_path, timestamp, mkdirs, call>>

\* main, lines 147-157
RunSingle ==
    /\ pc = "run" /\ command = single
    /\ Run(RunRequest(platform, single, filter), "finish")

\* mutant: the run of suite is given the caller's filter
RunSuite_with_filter ==
    /\ pc = "run" /\ command = suite
    /\ Run(RunRequest(platform, suite, filter), "finish")

\* main, lines 158-168
RunSuite ==
    /\ pc = "run" /\ command = suite
    /\ Run(RunRequest(platform, suite, None), "finish")

\* main, lines 169-178
RunFullEditMode ==
    /\ pc = "run" /\ command \notin {single, suite}
    /\ Run(RunRequest(EditMode, suite, None), "run2")

\* mutant: the second run of full is given the caller's filter
RunFullPlayMode_with_filter ==
    /\ pc = "run2"
    /\ Run(RunRequest(PlayMode, suite, filter), "finish")

\* main, lines 179-187
RunFullPlayMode ==
    /\ pc = "run2"
    /\ Run(RunRequest(PlayMode, suite, None), "finish")

\* main, line 189, and the normal end of the process
Finish ==
    /\ pc = "finish"
    /\ out' = Append(out, <<"[","v","a","l","i","d","a","t","e","]"," ","d","o","n","e">>)
    /\ Terminate(0, <<>>)
    /\ UNCHANGED <<inputs, files, dirs, unity, project_path, timestamp, procs,
                   runs, mkdirs, call>>

Next ==
    \/ CheckArgs
    \/ ResolveUnity
    \/ Prepare
    \/ RunSingle
    \/ RunSuite
    \/ RunFullEditMode
    \/ RunFullPlayMode
    \/ Finish

Spec == Init /\ [][Next]_vars

-----------------------------------------------------------------------------
(* Unit harness: the path functions and build_args on inputs of their own *)

\* characters of the paths given to the path functions
PathChars == {"C", ":", "\\", "/", "u"}

RECURSIVE StringsUpTo(_, _)
StringsUpTo(chars, n) ==
    IF n = 0 THEN {<<>>}
    ELSE LET shorter == StringsUpTo(chars, n - 1)
         IN  shorter \cup {Append(s, c) : s \in shorter, c \in chars}

Paths == StringsUpTo(PathChars, MaxPathLen)

\* what the converter may answer to a call: a failure, or any output
UnitConvResps ==
    {[returncode |-> 1, stdout |-> <<>>, stderr |-> <<"w","s","l","p","a","t","h",":"," ","I","n","v","a","l","i","d"," ","a","r","g","u","m","e","n","t">> \o <<"\n">>]} \cup
    [returncode : {0},
     stderr : {<<>>},
     stdout : {<<>>, <<"/","m","/","C","/","u">> \o <<"\n">>, <<" ">> \o <<"\\","\\","w","\\","p">> \o <<" ", "\n">>}]

\* os.environ: which of the WSL variables are set
UnitEnvirons == {[n \in wsl |-> <<"1">>] : wsl \in SUBSET {"WSL_DISTRO_NAME", "WSL_INTEROP"}}

\* arguments of build_args
UnitProjects == {<<"/","p">>}
UnitPlatforms == {EditMode, PlayMode, <<>>}
UnitResults == {<<"r",".","x","m","l">>}
UnitLogs == {<<"l",".","l","o","g">>}
UnitFilters == {None, <<>>, <<"T">>, <<"-","q","u","i","t">>}

InitUnit ==
    /\ command = full
    /\ platform = None
    /\ filter = None
    /\ cli_unity = None
    /\ project_arg = <<>>
    /\ dry_run = FALSE
    /\ environ \in UnitEnvirons
    /\ files = {}
    /\ dirs = {}
    /\ pc = "unit"
    /\ unity = None
    /\ project_path = None
    /\ timestamp = None
    /\ procs = <<>>
    /\ out = <<>>
    /\ runs = <<>>
    /\ mkdirs = <<>>
    /\ exit = NotExited
    /\ call = NoCall

\* the one call of a behaviour, fn(args), answered ret: procs and out hold
\* what it spawned and printed
Called(fn, args, ret) ==
    /\ pc = "unit"
    /\ pc' = "returned"
    /\ call' = [fn |-> fn, args |-> args, ret |-> ret]
    /\ procs' = ret.spawned
    /\ out' = ret.printed
    /\ UNCHANGED <<inputs, files, dirs, unity, project_path, timestamp,
                   runs, mkdirs, exit>>

UnitToUnixPath ==
    \E path \in Paths, resp \in UnitConvResps :
        Called("to_unix_path", <<path>>, to_unix_path(path, environ, resp))

UnitToWindowsPath ==
    \E path \in Paths, resp \in UnitConvResps :
        Called("to_windows_path", <<path>>, to_windows_path(path, environ, resp))

UnitBuildArgs ==
    \E project \in UnitProjects, plat \in UnitPlatforms, results_file \in UnitResults,
       log_file \in UnitLogs, test_filter \in UnitFilters,
       r1 \in UnitConvResps, r2 \in UnitConvResps, r3 \in UnitConvResps :
        Called("build_args", <<project, plat, results_file, log_file, test_filter>>,
               build_args(project, plat, results_file, log_file, test_filter,
                          environ, r1, r2, r3))

NextUnit == UnitToUnixPath \/ UnitToWindowsPath \/ UnitBuildArgs

SpecUnit == InitUnit /\ [][NextUnit]_vars

-----------------------------------------------------------------------------
(* Properties *)

\* the process runs inside the compatibility layer
InWsl == DOMAIN environ \cap {"WSL_DISTRO_NAME", "WSL_INTEROP"} # {}

\* the flags that build_args always emits before the quit toggle
FixedFlags == { <<"-","b","a","t","c","h","m","o","d","e">>, <<"-","p","r","o","j","e","c","t","P","a","t","h">>, <<"-","r","u","n","T","e","s","t","s">>, <<"-","t","e","s","t","P","l","a","t","f","o","r","m">>,
                <<"-","t","e","s","t","R","e","s","u","l","t","s">>, <<"-","l","o","g","F","i","l","e">> }

\* every flag of the runner's command line
FlagNames == FixedFlags \cup { <<"-","q","u","i","t">>, <<"-","t","e","s","t","F","i","l","t","e","r">> }

\* build_args was called and returned a list
BuildArgsReturned == call.fn = "build_args" /\ ~call.ret.raised

\* C1 as stated: in every list build_args returns, no flag follows -quit.
C1_NoFlagAfterQuit ==
    BuildArgsReturned =>
        LET args == call.ret.val
        IN  \A i \in 1..Len(args) :
                args[i] = <<"-","q","u","i","t">> =>
                    \A j \in (i + 1)..Len(args) : args[j] \notin FlagNames

\* C1 amended: in every list build_args returns, -quit comes after each of
\* -batchmode, -projectPath, -runTests, -testPlatform, -testResults and
\* -logFile, and what follows -quit is nothing when no non-empty filter was
\* supplied and exactly the pair -testFilter <filter> when one was.
C1_QuitTrailsFixedFlags ==
    BuildArgsReturned =>
        LET args == call.ret.val
            test_filter == call.args[5]
            quits == {i \in 1..Len(args) : args[i] = <<"-","q","u","i","t">>}
            q == CHOOSE i \in quits : \A j \in quits : i <= j
        IN  /\ quits # {}
            /\ \A f \in FixedFlags : \E i \in 1..(q - 1) : args[i] = f
            /\ SubSeq(args, q + 1, Len(args)) =
                   IF test_filter = None \/ test_filter = <<>> THEN <<>>
                   ELSE << <<"-","t","e","s","t","F","i","l","t","e","r">>, test_filter >>

\* C1 witness: build_args returned a list for a filter that is itself "-quit"
C1_Witness ==
    /\ BuildArgsReturned
    /\ call.args[5] = <<"-","q","u","i","t">>
    /\ Len(call.ret.val) = 13

\* the value build_args passes for its i-th path: the trimmed output of the
\* i-th converter call inside the compatibility layer, the path itself outside
PassedPath(i, path) == IF InWsl THEN strip(procs[i].stdout) ELSE path

\* C2: build_args returns exactly -batchmode, -projectPath <project>,
\* -runTests, -testPlatform <platform>, -testResults <results>,
\* -logFile <log>, -quit, followed by -testFilter <filter> if and only if a
\* non-empty filter was supplied, and by nothing else.
C2_FixedSequence ==
    BuildArgsReturned =>
        LET a == call.args
            fixed == << <<"-","b","a","t","c","h","m","o","d","e">>, <<"-","p","r","o","j","e","c","t","P","a","t","h">>, PassedPath(1, a[1]),
                        <<"-","r","u","n","T","e","s","t","s">>, <<"-","t","e","s","t","P","l","a","t","f","o","r","m">>, a[2],
                        <<"-","t","e","s","t","R","e","s","u","l","t","s">>, PassedPath(2, a[3]),
                        <<"-","l","o","g","F","i","l","e">>, PassedPath(3, a[4]), <<"-","q","u","i","t">> >>
        IN  \/ /\ a[5] # None /\ Len(a[5]) > 0
               /\ call.ret.val = fixed \o << <<"-","t","e","s","t","F","i","l","t","e","r">>, a[5] >>
            \/ /\ (a[5] = None \/ a[5] = <<>>)
               /\ call.ret.val = fixed

\* C2 witness: build_args returned the thirteen arguments for the filter "T"
\* inside the compatibility layer
C2_Witness ==
    /\ BuildArgsReturned
    /\ InWsl
    /\ call.args[5] = <<"T">>
    /\ Len(call.ret.val) = 13
    /\ Len(procs) = 3

\* C9: to_windows_path returns the path unchanged and spawns no converter
\* outside the compatibility layer; inside it, whatever the path, it runs
\* `wslpath -w <path>` exactly once and, when the converter succeeds, returns
\* its (trimmed) output.
C9_ToWindowsPath ==
    call.fn = "to_windows_path" =>
        LET path == call.args[1]
            ret == call.ret
        IN  IF InWsl
            THEN /\ Len(ret.spawned) = 1
                 /\ ret.spawned[1].cmd = << <<"w","s","l","p","a","t","h">>, <<"-","w">>, path >>
                 /\ ret.spawned[1].returncode = 0 =>
                        ~ret.raised /\ ret.val = strip(ret.spawned[1].stdout)
            ELSE ~ret.raised /\ ret.val = path /\ ret.spawned = <<>>

\* C9 witness: inside the compatibility layer a path that already looks
\* foreign was converted, and the output differs from the path
C9_Witness ==
    /\ call.fn = "to_windows_path"
    /\ InWsl
    /\ call.args[1] = <<"C",":","\\">>
    /\ ~call.ret.raised
    /\ call.ret.val = <<"\\","\\","w","\\","p">>

\* the path is lexically foreign: its second character is a colon followed by
\* a backslash or a slash, or it contains a backslash
LexicallyForeign(path) ==
    \/ \E i \in 1..Len(path) : path[i] = "\\"
    \/ /\ Len(path) > 2
       /\ SubSeq(path, 2, 3) \in {<<":", "\\">>, <<":", "/">>}

\* C10: to_unix_path runs the converter, as `wslpath -u <path>` and once, if
\* and only if the process is inside the compatibility layer and the path is
\* lexically foreign; in every other case it returns the path unchanged.
C10_ToUnixPath ==
    call.fn = "to_unix_path" =>
        LET path == call.args[1]
            ret == call.ret
        IN  IF InWsl /\ LexicallyForeign(path)
            THEN /\ Len(ret.spawned) = 1
                 /\ ret.spawned[1].cmd = << <<"w","s","l","p","a","t","h">>, <<"-","u">>, path >>
            ELSE ~ret.raised /\ ret.val = path /\ ret.spawned = <<>>

\* C10 witness: inside the compatibility layer the drive path "C:/" (no
\* backslash) was converted
C10_Witness ==
    /\ call.fn = "to_unix_path"
    /\ InWsl
    /\ call.args[1] = <<"C",":","/">>
    /\ Len(procs) = 1
    /\ ~call.ret.raised

\* p is a prefix of s
IsPrefix(p, s) == Len(p) <= Len(s) /\ SubSeq(s, 1, Len(p)) = p

\* the runner launches and the converter calls so far, in order
Launches == SelectSeq(procs, LAMBDA c : c.site = "run_one")
Conversions == SelectSeq(procs, LAMBDA c : c.site = "run_wslpath")

\* the completion marker
Marker == <<"[","v","a","l","i","d","a","t","e","]"," ","d","o","n","e">>

\* the command line lacks what its mode requires: the platform for single and
\* suite, the filter (absent or empty) for single
MissingPlatform == command \in {single, suite} /\ platform = None
MissingFilter == command = single /\ (filter = None \/ filter = <<>>)

\* C3: a single command without a filter, and a single or suite command
\* without a platform, never gets past the check of its arguments: it ends
\* with status 1 and the configuration message, and no converter call, no
\* runner launch, no directory creation, no run and no output happen.
C3_ConfigErrorBeforeAnything ==
    (MissingPlatform \/ MissingFilter) =>
        /\ pc \in {"check", "exited"}
        /\ procs = <<>> /\ mkdirs = <<>> /\ runs = <<>> /\ out = <<>>
        /\ dirs \in InitialDirs /\ files \in InitialFiles
        /\ unity = None
        /\ pc = "exited" =>
            /\ exit.status = 1
            /\ exit.stderr =
                 IF MissingPlatform
                 THEN <<"E","r","r","o","r",":"," ">> \o command \o <<" ","r","e","q","u","i","r","e","s"," ","-","-","p","l","a","t","f","o","r","m",".">>
                 ELSE <<"E","r","r","o","r",":"," ","s","i","n","g","l","e"," ","r","e","q","u","i","r","e","s"," ","-","-","f","i","l","t","e","r",".">>

\* C3 witness: inside the compatibility layer, with a foreign --unity path, a
\* single command with a platform and no filter has ended
C3_Witness ==
    /\ pc = "exited"
    /\ command = single /\ platform = EditMode /\ filter = None
    /\ InWsl /\ cli_unity = <<"C",":","\\","u">>
    /\ exit.stderr = <<"E","r","r","o","r",":"," ","s","i","n","g","l","e"," ","r","e","q","u","i","r","e","s"," ","-","-","f","i","l","t","e","r",".">>

\* the path the runner is given for `path`
Normalized(path) == IF InWsl THEN strip(wslpath_stdout(<<"-","w">>, path)) ELSE path

\* the lines a dry run of req prints: its progress and the quoted command line
DryRunLines(req) ==
    LET args == arg_list(Normalized(req.project_path), req.platform,
                         Normalized(req.results_file), Normalized(req.log_file),
                         req.test_filter)
        items == <<req.unity>> \o args
    IN  << <<"[","v","a","l","i","d","a","t","e","]"," ","p","l","a","t","f","o","r","m","=">> \o req.platform,
           <<"[","v","a","l","i","d","a","t","e","]"," ","r","e","s","u","l","t","s","=">> \o req.results_file,
           <<"[","v","a","l","i","d","a","t","e","]"," ","l","o","g","=">> \o req.log_file,
           <<"[","d","r","y","-","r","u","n","]"," ">>
               \o join(<<" ">>, [i \in 1..Len(items) |-> <<"\"">> \o items[i] \o <<"\"">>]) >>

RECURSIVE Flatten(_)
Flatten(seqs) == IF seqs = <<>> THEN <<>> ELSE Head(seqs) \o Flatten(Tail(seqs))

\* the runs that returned: all of them, but the last when it raised
ReturnedRuns ==
    IF pc = "exited" /\ exit.status # 0 /\ runs # <<>>
    THEN SubSeq(runs, 1, Len(runs) - 1) ELSE runs

\* C4: in dry-run mode, in every mode and at every step, no runner has been
\* launched and no result or log file exists; the output is, for each run
\* that returned, its three progress lines and the quoted command line (the
\* executable and every argument, each in double quotes), and the completion
\* marker once the command has ended.
C4_DryRunLaunchesNothing ==
    dry_run =>
        /\ Launches = <<>>
        /\ files \in InitialFiles
        /\ \A i \in 1..Len(runs) :
               runs[i].results_file \notin files /\ runs[i].log_file \notin files
        /\ out = Flatten([i \in 1..Len(ReturnedRuns) |-> DryRunLines(ReturnedRuns[i])])
                 \o (IF pc = "exited" /\ exit.status = 0 THEN <<Marker>> ELSE <<>>)

\* C4 witness: a dry-run full command has ended inside the compatibility
\* layer after printing both runs
C4_Witness ==
    /\ dry_run /\ command = full /\ InWsl
    /\ pc = "exited" /\ exit.status = 0
    /\ Len(runs) = 2 /\ Len(out) = 9 /\ Len(Conversions) >= 6

NotFoundPrefix == <<"E","r","r","o","r",":"," ","U","n","i","t","y"," ","e","d","i","t","o","r"," ","n","o","t"," ","f","o","u","n","d"," ","a","t"," ","'">>

\* C5: in dry-run mode the command never ends with the executable-not-found
\* error, whether or not the resolved path is a regular file; a dry-run
\* command that ended before its first run ended on a missing argument, a
\* missing executable path or a failed conversion.
C5_DryRunSkipsExistenceCheck ==
    dry_run =>
        /\ ~IsPrefix(NotFoundPrefix, exit.stderr)
        /\ (pc = "exited" /\ runs = <<>>) =>
               \/ MissingPlatform \/ MissingFilter
               \/ exit.stderr = <<"E","r","r","o","r",":"," ","U","n","i","t","y"," ","p","a","t","h"," ","i","s"," ","r","e","q","u","i","r","e","d","."," ","U","s","e"," ","-","-","u","n","i","t","y"," ","o","r"," ","s","e","t"," ","U","N","I","T","Y","_","E","D","I","T","O","R","_","P","A","T","H",".">>
               \/ /\ Len(procs) = 1
                  /\ procs[1].returncode # 0
                  /\ IsPrefix(<<"E","r","r","o","r",":"," ","f","a","i","l","e","d"," ","t","o"," ","c","o","n","v","e","r","t"," ","p","a","t","h"," ","v","i","a"," ","w","s","l","p","a","t","h",":"," ">>, exit.stderr)

\* C5 witness: a dry-run command whose resolved executable is no file of the
\* filesystem has issued a run
C5_Witness ==
    /\ dry_run
    /\ unity # None /\ unity \notin files
    /\ runs # <<>>
    /\ runs[1].unity = unity

\* the RunRequest of full's run of `plat` when the timestamp is ts
FullRun(plat, ts) ==
    [unity |-> unity,
     project_path |-> project_path,
     platform |-> plat,
     results_file |-> <<"T","e","m","p","/","A","I","V","a","l","i","d","a","t","i","o","n","/">> \o plat \o <<"-","s","u","i","t","e","-">> \o ts \o <<".","x","m","l">>,
     log_file |-> <<"T","e","m","p","/","A","I","V","a","l","i","d","a","t","i","o","n","/","l","o","g","s","/">> \o plat \o <<"-","s","u","i","t","e","-">> \o ts \o <<".","l","o","g">>,
     test_filter |-> None,
     dry_run |-> dry_run]

\* C6: in full mode the runs are, in this order, EditMode then PlayMode, both
\* without a filter whatever platform and filter the caller gave, with
\* artifacts named EditMode-suite-<ts> and PlayMode-suite-<ts> for one and
\* the same timestamp; a full command that ended with status 0 (every runner
\* launch exited 0 and no other step failed) made exactly these two runs,
\* with four pairwise distinct artifact names, and when not in dry-run the
\* runner was launched once per run and the four files exist.
C6_FullRunsBothSuites ==
    command = full =>
        /\ \E ts \in Timestamps :
               \E both \in {<<FullRun(EditMode, ts), FullRun(PlayMode, ts)>>} :
                   Len(runs) <= 2 /\ runs = SubSeq(both, 1, Len(runs))
        /\ (pc = "exited" /\ exit.status = 0) =>
               LET names == {runs[1].results_file, runs[1].log_file,
                             runs[2].results_file, runs[2].log_file}
               IN  /\ Len(runs) = 2
                   /\ Cardinality(names) = 4
                   /\ ~dry_run =>
                          /\ Len(Launches) = 2
                          /\ \A i \in 1..2 : Launches[i].returncode = 0
                          /\ names \subseteq files

\* C6 witness: a full command given --platform PlayMode and --filter T has
\* ended with status 0 after two launches
C6_Witness ==
    /\ command = full /\ platform = PlayMode /\ filter = <<"T">>
    /\ ~dry_run
    /\ pc = "exited" /\ exit.status = 0
    /\ Len(Launches) = 2

\* C7: in full mode without dry-run, once the first runner launch has exited
\* non-zero the command has ended with status 1 and the runner-failed message
\* carrying that code; that launch is the last child process, only the
\* EditMode run was issued and only its three progress lines were printed.
C7_FullFailsFast ==
    (command = full /\ ~dry_run /\ Launches # <<>> /\ Launches[1].returncode # 0) =>
        /\ pc = "exited"
        /\ exit.status = 1
        /\ exit.stderr = <<"E","r","r","o","r",":"," ","U","n","i","t","y"," ","t","e","s","t"," ","r","u","n"," ","f","a","i","l","e","d"," ","w","i","t","h"," ","e","x","i","t"," ","c","o","d","e"," ">>
                         \o str(Launches[1].returncode) \o <<".">>
        /\ Len(Launches) = 1
        /\ procs[Len(procs)] = Launches[1]
        /\ Len(runs) = 1 /\ runs[1].platform = EditMode
        /\ Len(out) = 3
        /\ \A i \in 1..Len(procs) : \A j \in 1..Len(procs[i].cmd) :
               procs[i].cmd[j] # PlayMode
                   /\ ~IsPrefix(<<"T","e","m","p","/","A","I","V","a","l","i","d","a","t","i","o","n","/","P","l","a","y","M","o","d","e">>, procs[i].cmd[j])
                   /\ ~IsPrefix(<<"T","e","m","p","/","A","I","V","a","l","i","d","a","t","i","o","n","/","l","o","g","s","/","P","l","a","y","M","o","d","e">>, procs[i].cmd[j])

\* C7 witness: inside the compatibility layer the EditMode launch of a full
\* command exited with code 2
C7_Witness ==
    /\ command = full /\ ~dry_run /\ InWsl
    /\ Launches # <<>>
    /\ Launches[1].returncode = 2
    /\ Launches[1].cmd[7] = EditMode

\* the number of runs the mode requires
RequiredRuns == IF command = full THEN 2 ELSE 1

\* every run the mode requires was issued and completed: every child process
\* exited 0 and, when not in dry-run, each run launched the runner
AllRunsSucceeded ==
    /\ Len(runs) = RequiredRuns
    /\ \A i \in 1..Len(procs) : procs[i].returncode = 0
    /\ ~dry_run => Len(Launches) = RequiredRuns

\* C8: the completion marker is printed only as the last line of a command
\* that ends with status 0, and a command ends with status 0 if and only if
\* every run its mode requires completed successfully; in every other
\* execution it ends with status 1 and a message that starts with "Error: ",
\* no child process was started after the first one that failed, and the
\* marker is not printed.
C8_MarkerIffAllRunsSucceeded ==
    /\ pc # "exited" =>
           exit = NotExited /\ \A i \in 1..Len(out) : out[i] # Marker
    /\ pc = "exited" =>
           /\ exit.status \in {0, 1}
           /\ exit.status = 0 <=> AllRunsSucceeded
           /\ exit.status = 0 =>
                  /\ out # <<>> /\ out[Len(out)] = Marker
                  /\ \A i \in 1..(Len(out) - 1) : out[i] # Marker
                  /\ exit.stderr = <<>>
           /\ exit.status # 0 =>
                  /\ IsPrefix(<<"E","r","r","o","r",":"," ">>, exit.stderr)
                  /\ \A i \in 1..Len(out) : out[i] # Marker
                  /\ \A i \in 1..(Len(procs) - 1) : procs[i].returncode = 0

\* C8 witness: a single command that launched the runner has ended with
\* status 0 and the marker as its last line
C8_Witness ==
    /\ command = single /\ ~dry_run
    /\ pc = "exited" /\ exit.status = 0
    /\ Len(Launches) = 1
    /\ out[Len(out)] = Marker

\* p occurs in s
IsInfix(p, s) ==
    \E i \in 0..(Len(s) - Len(p)) : SubSeq(s, i + 1, i + Len(p)) = p

\* the converter calls that exited non-zero
FailedConversions ==
    {i \in 1..Len(procs) : procs[i].site = "run_wslpath" /\ procs[i].returncode # 0}

\* C11 as stated: once a converter call has exited non-zero the command has
\* ended with a non-zero status, that call is the last child process (no
\* retry), and the message holds both the offending path and what the
\* converter reported on its standard error.
C11_ConversionErrorNamesPathAndFailure ==
    \A i \in FailedConversions :
        /\ pc = "exited" /\ exit.status # 0
        /\ i = Len(procs)
        /\ IsInfix(procs[i].cmd[3], exit.stderr)
        /\ IsInfix(strip(procs[i].stderr), exit.stderr)

\* C11, what the script does: the same, but the message is the fixed text
\* followed by the offending path, without the converter's report.
C11_ConversionErrorNamesPathOnly ==
    \A i \in FailedConversions :
        /\ pc = "exited" /\ exit.status = 1
        /\ i = Len(procs)
        /\ exit.stderr = <<"E","r","r","o","r",":"," ","f","a","i","l","e","d"," ","t","o"," ","c","o","n","v","e","r","t"," ","p","a","t","h"," ","v","i","a"," ","w","s","l","p","a","t","h",":"," ">> \o procs[i].cmd[3]

\* the message of a command that has no executable path
PathRequired == <<"E","r","r","o","r",":"," ","U","n","i","t","y"," ","p","a","t","h"," ","i","s"," ","r","e","q","u","i","r","e","d","."," ","U","s","e"," ","-","-","u","n","i","t","y"," ","o","r"," ","s","e","t"," ","U","N","I","T","Y","_","E","D","I","T","O","R","_","P","A","T","H",".">>

\* --unity is omitted and UNITY_EDITOR_PATH is unset
NoUnityPath == cli_unity = None /\ "UNITY_EDITOR_PATH" \notin DOMAIN environ

\* C12: when --unity is omitted and UNITY_EDITOR_PATH is unset, the command
\* never gets past the resolution of the executable: no directory is
\* created, no run is issued and no child process is started, and it ends
\* with status 1 and the executable-path-required message (or, when its mode
\* lacks a required argument, with that configuration message).
C12_PathRequiredBeforeDirectories ==
    NoUnityPath =>
        /\ pc \in {"check", "resolve", "exited"}
        /\ mkdirs = <<>> /\ dirs \in InitialDirs
        /\ runs = <<>> /\ procs = <<>> /\ out = <<>>
        /\ pc = "exited" =>
            /\ exit.status = 1
            /\ (MissingPlatform \/ MissingFilter) => exit.stderr # PathRequired
            /\ ~(MissingPlatform \/ MissingFilter) => exit.stderr = PathRequired

\* C12 witness: inside the compatibility layer a valid non-dry-run suite
\* command without any executable path has ended with the message, the output
\* directories still missing
C12_Witness ==
    /\ NoUnityPath /\ InWsl /\ ~dry_run
    /\ command = suite /\ platform = PlayMode
    /\ pc = "exited"
    /\ exit.stderr = PathRequired
    /\ dirs = {}

\* the RunRequest of the one run of a single or suite command when the
\* timestamp is ts
OneRun(ts) ==
    [unity |-> unity,
     project_path |-> project_path,
     platform |-> platform,
     results_file |-> <<"T","e","m","p","/","A","I","V","a","l","i","d","a","t","i","o","n","/">> \o platform \o <<"-">> \o command
                      \o <<"-">> \o ts \o <<".","x","m","l">>,
     log_file |-> <<"T","e","m","p","/","A","I","V","a","l","i","d","a","t","i","o","n","/","l","o","g","s","/">> \o platform \o <<"-">> \o command
                  \o <<"-">> \o ts \o <<".","l","o","g">>,
     test_filter |-> IF command = single THEN filter ELSE None,
     dry_run |-> dry_run]

\* C13: a single or suite command issues at most one run, and exactly one
\* once it is past the preparation of its directories; the run has the
\* caller's platform, artifacts named <platform>-single-<ts> or
\* <platform>-suite-<ts>, and the caller's (non-empty) filter for single but
\* no filter for suite, even when the caller supplied one; the runner is
\* launched at most once, with the filter pair for single only.
C13_SingleAndSuiteIssueOneRun ==
    command \in {single, suite} =>
        /\ Len(runs) <= 1
        /\ runs # <<>> =>
               /\ \E ts \in Timestamps : runs[1] = OneRun(ts)
               /\ runs[1].platform \in {EditMode, PlayMode}
               /\ command = single => runs[1].test_filter \notin {None, <<>>}
        /\ (pc = "finish" \/ (pc = "exited" /\ mkdirs # <<>>)) => Len(runs) = 1
        /\ Len(Launches) <= 1
        /\ Launches # <<>> =>
               LET cmd == Launches[1].cmd
               IN  IF command = single
                   THEN Len(cmd) = 14 /\ cmd[13] = <<"-","t","e","s","t","F","i","l","t","e","r">> /\ cmd[14] = filter
                   ELSE Len(cmd) = 12 /\ cmd[12] = <<"-","q","u","i","t">>

\* C13 witness: a suite command given --filter T has launched its one run
\* without a filter
C13_Witness ==
    /\ command = suite /\ filter = <<"T">> /\ platform = PlayMode
    /\ Len(runs) = 1 /\ runs[1].test_filter = None
    /\ Len(Launches) = 1
    /\ pc = "exited" /\ exit.status = 0

\* the message of a run whose runner exited with code rc, for rc below ten
RunnerFailed(rc) ==
    <<"E","r","r","o","r",":"," ","U","n","i","t","y"," ","t","e","s","t"," ","r","u","n"," ","f","a","i","l","e","d"," ","w","i","t","h"," ","e","x","i","t"," ","c","o","d","e"," ">>
        \o <<(<<"0","1","2","3","4","5","6","7","8","9">>)[rc + 1]>> \o <<".">>

\* C14: when not in dry-run the runner is launched at most once per run, and
\* once per run when no conversion failed; the i-th launch is that of the
\* i-th run; once a launch has exited non-zero the command has ended with
\* status 1 and the runner-failed message carrying exactly that code, and no
\* child process follows it; a run whose launch exited 0 did not fail.
C14_RunnerExitCodeDecidesRun ==
    ~dry_run =>
        /\ Len(Launches) <= Len(runs)
        /\ FailedConversions = {} => Len(Launches) = Len(runs)
        /\ \A i \in 1..Len(Launches) :
               LET launch == Launches[i]
               IN  /\ launch.cmd[1] = runs[i].unity
                   /\ launch.cmd[7] = runs[i].platform
                   /\ launch.returncode # 0 =>
                          /\ pc = "exited" /\ exit.status = 1
                          /\ exit.stderr = RunnerFailed(launch.returncode)
                          /\ i = Len(Launches)
                          /\ procs[Len(procs)] = launch
                   /\ launch.returncode = 0 =>
                          /\ exit.stderr # RunnerFailed(0)
                          /\ (i = Len(runs) /\ pc = "exited") => exit.status = 0
                          /\ (i = Len(runs) /\ pc # "exited") => pc \in {"run2", "finish"}

\* C14 witness: the launch of a single command exited with code 2 and the
\* command ended with the message carrying 2
C14_Witness ==
    /\ ~dry_run /\ command = single
    /\ Len(Launches) = 1 /\ Launches[1].returncode = 2
    /\ exit.stderr = <<"E","r","r","o","r",":"," ","U","n","i","t","y"," ","t","e","s","t"," ","r","u","n"," ","f","a","i","l","e","d"," ","w","i","t","h"," ","e","x","i","t"," ","c","o","d","e"," ","2",".">>

\* the resolver has run: the command has valid arguments and is past line 137
ResolverRan == pc \notin {"check", "resolve"} /\ ~(MissingPlatform \/ MissingFilter)

\* the resolver returned
Resolved ==
    pc \in {"prepare", "run", "run2", "finish"} \/ (pc = "exited" /\ mkdirs # <<>>)

\* the resolver took `raw` as the executable path: the path it handed to the
\* converter, returned, or named in the not-found message comes from `raw`
UsesRaw(raw) ==
    LET native == IF InWsl /\ LexicallyForeign(raw)
                  THEN strip(wslpath_stdout(<<"-","u">>, raw)) ELSE raw
    IN  /\ exit.stderr # PathRequired
        /\ (procs # <<>> /\ procs[1].cmd[2] = <<"-","u">>) => procs[1].cmd[3] = raw
        /\ Resolved => unity = native
        /\ IsPrefix(NotFoundPrefix, exit.stderr) =>
               exit.stderr = NotFoundPrefix \o native \o <<"'",".">>

\* UNITY_EDITOR_PATH, or None when it is unset
EnvUnity ==
    IF "UNITY_EDITOR_PATH" \in DOMAIN environ THEN environ["UNITY_EDITOR_PATH"] ELSE None

\* C15 as stated: the resolver uses --unity whenever it is given, the
\* environment variable only when --unity is not given, and fails with the
\* executable-path-required error only when neither is present.
C15_ExplicitWheneverGiven ==
    ResolverRan =>
        /\ cli_unity # None => UsesRaw(cli_unity)
        /\ (cli_unity = None /\ EnvUnity # None) => UsesRaw(EnvUnity)
        /\ exit.stderr = PathRequired => NoUnityPath

\* C15 amended: the resolver uses --unity whenever a non-empty one is given,
\* the environment variable when --unity is absent or empty and the variable
\* is set to a non-empty string, and fails with the executable-path-required
\* error exactly when both are absent or empty.
C15_NonEmptyExplicitFirst ==
    ResolverRan =>
        /\ cli_unity \notin {None, <<>>} => UsesRaw(cli_unity)
        /\ (cli_unity \in {None, <<>>} /\ EnvUnity \notin {None, <<>>}) => UsesRaw(EnvUnity)
        /\ (cli_unity \in {None, <<>>} /\ EnvUnity \in {None, <<>>}) <=>
               (pc = "exited" /\ exit.stderr = PathRequired)

\* C15 witness: with --unity /x and UNITY_EDITOR_PATH=/u the resolver
\* returned /x
C15_Witness ==
    /\ cli_unity = <<"/","x">> /\ EnvUnity = <<"/","u">>
    /\ Resolved
    /\ unity = <<"/","x">>

\* the executable path the command was given, --unity first
GivenUnity == IF cli_unity \in {None, <<>>} THEN EnvUnity ELSE cli_unity

\* the given executable path in the native namespace
NativeUnity ==
    IF InWsl /\ LexicallyForeign(GivenUnity)
    THEN strip(wslpath_stdout(<<"-","u">>, GivenUnity)) ELSE GivenUnity

\* the files of the filesystem before any runner wrote its artifacts
FilesBefore ==
    files \ UNION {{runs[i].results_file, runs[i].log_file} : i \in 1..Len(runs)}

\* C16: when not in dry-run, a command ends with the executable-not-found
\* error exactly when the resolver got a path, normalized it, and the
\* normalized path is no regular file; the message names that path, and on
\* that execution no directory was created, no run was issued and no runner
\* was launched; every runner launch is that of a normalized path that is a
\* regular file.
C16_NotFoundBeforeDirectories ==
    ~dry_run =>
        /\ (ResolverRan /\ GivenUnity \notin {None, <<>>} /\ FailedConversions = {}
                /\ NativeUnity \notin FilesBefore) =>
               (pc = "exited" /\ exit.stderr = NotFoundPrefix \o NativeUnity \o <<"'",".">>)
        /\ IsPrefix(NotFoundPrefix, exit.stderr) =>
               /\ pc = "exited" /\ exit.status = 1
               /\ exit.stderr = NotFoundPrefix \o NativeUnity \o <<"'",".">>
               /\ NativeUnity \notin files
               /\ mkdirs = <<>> /\ dirs \in InitialDirs
               /\ runs = <<>> /\ Launches = <<>>
        /\ Resolved => unity = NativeUnity /\ unity \in FilesBefore
        /\ \A i \in 1..Len(Launches) :
               Launches[i].cmd[1] = NativeUnity /\ Launches[i].cmd[1] \in FilesBefore

\* C16 witness: inside the compatibility layer, with the editor not
\* installed, a non-dry-run command given --unity C:\u has ended with the
\* message naming the converted path
C16_Witness ==
    /\ ~dry_run /\ InWsl /\ cli_unity = <<"C",":","\\","u">>
    /\ files = {} /\ dirs = {}
    /\ pc = "exited"
    /\ exit.stderr = <<"E","r","r","o","r",":"," ","U","n","i","t","y"," ","e","d","i","t","o","r"," ","n","o","t"," ","f","o","u","n","d"," ","a","t"," ","'","/","m","/","C","/","u","'",".">>

\* the two output directories
OutputDirs == {<<"T","e","m","p","/","A","I","V","a","l","i","d","a","t","i","o","n">>, <<"T","e","m","p","/","A","I","V","a","l","i","d","a","t","i","o","n","/","l","o","g","s">>}

\* C17: no step removes a directory; the preparation step always succeeds,
\* whether or not the output directories exist already, and leaves both in
\* place; and every step of a run (its converter calls, its output, its
\* launch) is taken with both directories in place.
C17_DirectoriesBeforeRuns ==
    [][ /\ dirs \subseteq dirs'
        /\ pc = "prepare" =>
               /\ pc' = "run" /\ exit' = NotExited
               /\ OutputDirs \subseteq dirs'
               /\ OutputDirs \subseteq dirs => dirs' = dirs
        /\ (runs' # runs \/ out' # out \/ (procs' # procs /\ pc # "resolve")) =>
               OutputDirs \subseteq dirs
      ]_vars

\* C17 witness: both directories existed before the command, were created
\* again without error, and are still there after the run failed
C17_Witness ==
    /\ Len(mkdirs) = 2 /\ mkdirs[1].existed /\ mkdirs[2].existed
    /\ pc = "exited" /\ exit.status = 1
    /\ Launches # <<>>
    /\ OutputDirs \subseteq dirs

\* the to-windows converter calls so far, in order
WConversions == SelectSeq(procs, LAMBDA c : c.cmd[2] = <<"-","w">> /\ c.site = "run_wslpath")

\* the three paths run number k handed to the runner, and whether they were
\* obtained as the claim says: inside the compatibility layer from the three
\* successful calls `wslpath -w` on the project path, the results file and
\* the log file, in this order; outside it, from the strings themselves
HandedPaths(k) ==
    IF InWsl
    THEN [j \in 1..3 |-> strip(WConversions[3 * (k - 1) + j].stdout)]
    ELSE <<runs[k].project_path, runs[k].results_file, runs[k].log_file>>

ConvertedInOrder(k) ==
    InWsl =>
        /\ Len(WConversions) >= 3 * k
        /\ \A j \in 1..3 :
               LET c == WConversions[3 * (k - 1) + j]
               IN  /\ c.returncode = 0
                   /\ c.cmd = << <<"w","s","l","p","a","t","h">>, <<"-","w">>,
                                 <<runs[k].project_path, runs[k].results_file,
                                   runs[k].log_file>>[j] >>

\* C18: outside the compatibility layer no converter is called for a run and
\* the runner is given the project path, the results file and the log file
\* as they are; inside it, every launch comes right after three successful
\* `wslpath -w` calls on these three paths, in this order, and the arguments
\* after -projectPath, -testResults and -logFile are their (trimmed)
\* outputs; the same holds of the command line a dry run prints.
C18_RunnerGetsConvertedPaths ==
    /\ ~InWsl => Conversions = <<>>
    /\ \A p \in 1..Len(procs) :
           procs[p].site = "run_one" =>
               LET k == Cardinality({q \in 1..p : procs[q].site = "run_one"})
                   cmd == procs[p].cmd
               IN  /\ ConvertedInOrder(k)
                   /\ InWsl => /\ p > 3
                               /\ \A j \in 1..3 :
                                      procs[p - 4 + j] = WConversions[3 * (k - 1) + j]
                   /\ cmd[3] = <<"-","p","r","o","j","e","c","t","P","a","t","h">> /\ cmd[4] = HandedPaths(k)[1]
                   /\ cmd[8] = <<"-","t","e","s","t","R","e","s","u","l","t","s">> /\ cmd[9] = HandedPaths(k)[2]
                   /\ cmd[10] = <<"-","l","o","g","F","i","l","e">> /\ cmd[11] = HandedPaths(k)[3]
    /\ dry_run =>
           \A k \in 1..Len(ReturnedRuns) :
               LET items == <<runs[k].unity>>
                            \o arg_list(HandedPaths(k)[1], runs[k].platform,
                                        HandedPaths(k)[2], HandedPaths(k)[3],
                                        runs[k].test_filter)
               IN  /\ ConvertedInOrder(k)
                   /\ out[4 * k] = <<"[","d","r","y","-","r","u","n","]"," ">>
                          \o join(<<" ">>, [i \in 1..Len(items) |-> quote(items[i])])

\* C18 witness: inside the compatibility layer the second launch of a full
\* command was given the converted PlayMode log file
C18_Witness ==
    /\ InWsl /\ ~dry_run /\ command = full
    /\ Len(Launches) = 2
    /\ Len(WConversions) = 6
    /\ Launches[2].cmd[11] = strip(WConversions[6].stdout)
    /\ Launches[2].cmd[11] # runs[2].log_file

\* the message of a failed conversion, up to the path
ConversionFailed == <<"E","r","r","o","r",":"," ","f","a","i","l","e","d"," ","t","o"," ","c","o","n","v","e","r","t"," ","p","a","t","h"," ","v","i","a"," ","w","s","l","p","a","t","h",":"," ">>

\* C19: in dry-run mode inside the compatibility layer every child process
\* is a converter call: one `wslpath -u` for an executable path that looks
\* foreign (none otherwise) and three `wslpath -w` per run that returned, so
\* three per required run once the command has ended with status 0; once a
\* converter call has exited non-zero the command has ended with status 1
\* and the path-conversion error, that call is the last child process, and
\* the output holds the four lines of each earlier run only: no line of the
\* run whose conversion failed, and no completion marker.
C19_DryRunStillConverts ==
    (dry_run /\ InWsl) =>
        /\ Launches = <<>>
        /\ (procs # <<>> /\ GivenUnity \notin {None, <<>>}) =>
               IF LexicallyForeign(GivenUnity)
               THEN /\ procs[1].cmd = << <<"w","s","l","p","a","t","h">>, <<"-","u">>, GivenUnity >>
                    /\ Len(procs) = 1 + Len(WConversions)
               ELSE Len(procs) = Len(WConversions)
        /\ (Resolved /\ LexicallyForeign(GivenUnity)) => procs # <<>>
        /\ \A k \in 1..Len(ReturnedRuns) : ConvertedInOrder(k)
        /\ (pc = "exited" /\ exit.status = 0) => Len(WConversions) = 3 * RequiredRuns
        /\ \A i \in FailedConversions :
               /\ pc = "exited" /\ exit.status = 1
               /\ IsPrefix(ConversionFailed, exit.stderr)
               /\ i = Len(procs)
               /\ Len(out) = 4 * Len(ReturnedRuns)
               /\ procs[i].cmd[2] = <<"-","u">> => out = <<>> /\ runs = <<>>
               /\ procs[i].cmd[2] = <<"-","w">> =>
                      /\ Len(ReturnedRuns) = (Len(WConversions) - 1) \div 3
                      /\ Len(runs) = Len(ReturnedRuns) + 1
                      /\ \A l \in 1..Len(out) :
                             /\ out[l] # <<"[","v","a","l","i","d","a","t","e","]"," ","r","e","s","u","l","t","s","=">> \o runs[Len(runs)].results_file
                             /\ ~IsPrefix(<<"[","d","r","y","-","r","u","n","]"," ">>, out[l]) \/ l = 4
                             /\ out[l] # Marker

\* C19 witness: a dry-run full command given --unity C:\u printed its
\* EditMode run and ended on the failure of the second conversion of its
\* PlayMode run
C19_Witness ==
    /\ dry_run /\ InWsl /\ command = full /\ cli_unity = <<"C",":","\\","u">>
    /\ Len(procs) = 6 /\ procs[6].returncode # 0
    /\ pc = "exited" /\ exit.status = 1
    /\ Len(out) = 4

====
